---- MODULE Spec2Model ----
(***************************************************************************)
(* The resolution-and-event pipeline of the url-shortner repository:       *)
(*   url-service      (Allocator: POST/DELETE /api/v1/url on the Code      *)
(*                     Store, a Redis instance),                           *)
(*   redirect-service (Resolver: GET /:shortCode, publishes click events), *)
(*   analytics-service (Ingestor: consumes q.click-events into Postgres).  *)
(* Every await of a handler is a scheduling point, so a handler is split   *)
(* into one action per awaited store / broker operation.                   *)
(***************************************************************************)
EXTENDS Integers, Sequences, FiniteSets, TLC

\* ------------------------------------------------------------------ bounds
MaxReq == 2          \* HTTP requests in flight at once (request slots)
MaxMsgs == 2         \* messages ever put on q.click-events
MaxBrokerDowns == 1  \* broker outages
MaxKills == 1        \* kills of the analytics-service process

\* ------------------------------------------------------- program constants
maxAttempts == 10        \* url-service: random candidates per allocate
StartRetries == 5        \* every connect loop: let retries = 5
CodeMin == 3             \* .min(3) / len: [3, 20]
CodeMax == 20            \* .max(20)
VarcharMax == 255        \* DataTypes.STRING

\* ------------------------------------------------------------------ values
Null == "<null>"             \* JavaScript null (Redis: key absent)
Undefined == "<undefined>"   \* JavaScript undefined (header / key absent)

Lower == {"a","b","c","d","e","f","g","h","i","j","k","l","m",
          "n","o","p","q","r","s","t","u","v","w","x","y","z"}
Upper == {"A","B","C","D","E","F","G","H","I","J","K","L","M",
          "N","O","P","Q","R","S","T","U","V","W","X","Y","Z"}
Digit == {"0","1","2","3","4","5","6","7","8","9"}
AlnumChars == Lower \cup Upper \cup Digit
\* nanoid's default alphabet: A-Za-z0-9 and "_", "-" (64 symbols)
NanoidAlphabet == AlnumChars \cup {"_", "-"}

\* Short codes, and the characters each is made of.
NoCode == Undefined
CodeAbc == "abc"
CodeShort == "ab"
CodeBang == "ab!"
NanoA == "V1stGxR"
NanoB == "u_z-0kQ"

Chars(code) ==
    CASE code = CodeAbc -> <<"a","b","c">>
      [] code = CodeShort -> <<"a","b">>
      [] code = CodeBang -> <<"a","b","!">>
      [] code = NanoA -> <<"V","1","s","t","G","x","R">>
      [] code = NanoB -> <<"u","_","z","-","0","k","Q">>
      [] OTHER -> <<>>

\* what nanoid(7) may return in the model
NanoPool == {NanoA, NanoB}
\* custom codes a client may ask for
CustomInputs == {CodeAbc, NanoB, CodeShort}
\* short codes a client may request from either service
CodeInputs == {CodeAbc, CodeShort, CodeBang, NanoA, NanoB}
\* keys the Code Store can ever hold
Keys == {CodeAbc, NanoA, NanoB}

UrlA == "https://example.org/a"
UrlB == "http://localhost:3000/b"
NotAUrl == "not a url"
\* a valid URL of 300 characters
UrlLong == "https://example.org/300-characters"
\* a URI whose scheme is neither http nor https
UrlFtp == "ftp://example.org/f"
UrlInputs == {UrlA, UrlB, NotAUrl}
\* destinations by scheme: https, ftp, none
SchemeInputs == {UrlA, UrlFtp, NotAUrl}

\* String length, where a column width decides.
StrLen(s) == IF s = UrlLong THEN 300 ELSE 24

\* The parts of a URL string that the validators look at.
UrlParts(s) ==
    CASE s = UrlA -> [scheme |-> "https", host |-> "example.org", tld |-> TRUE]
      [] s = UrlB -> [scheme |-> "http", host |-> "localhost", tld |-> FALSE]
      [] s = UrlLong -> [scheme |-> "https", host |-> "example.org", tld |-> TRUE]
      [] s = UrlFtp -> [scheme |-> "ftp", host |-> "example.org", tld |-> TRUE]
      [] OTHER -> [scheme |-> "", host |-> "", tld |-> FALSE]

\* Joi.string().uri(): an RFC 3986 URI with a scheme.
JoiUri(s) == s \notin {Null, Undefined} /\ UrlParts(s).scheme # ""

\* new URL(s) does not throw.
UrlConstructorOk(s) == UrlParts(s).scheme # "" /\ UrlParts(s).host # ""

AllIn(code, chars) == \A i \in 1..Len(Chars(code)) : Chars(code)[i] \in chars

\* url-service: Joi.string().pattern(/^[a-zA-Z0-9_-]+$/).min(3).max(20)
UrlServiceCodeOk(code) ==
    /\ code \notin {Null, Undefined}
    /\ Len(Chars(code)) >= 1
    /\ AllIn(code, NanoidAlphabet)
    /\ Len(Chars(code)) >= CodeMin
    /\ Len(Chars(code)) <= CodeMax

\* redirect-service: Joi.string().alphanum().min(3).max(20).required()
ResolverCodeOk(code) ==
    /\ code \notin {Null, Undefined}
    /\ Len(Chars(code)) >= 1
    /\ AllIn(code, AlnumChars)
    /\ Len(Chars(code)) >= CodeMin
    /\ Len(Chars(code)) <= CodeMax

\* --------------------------------------------------------------- variables
VARIABLES
    store,       \* Code Store: key -> destination URL, or Null
    everStored,  \* history: the keys setEx has ever written
    redisUp,     \* redisClient.isReady of the connected clients
    upc,         \* url-service startServer position
    uretries,    \* url-service: retries left of the Redis connect loop
    rpc,         \* redirect-service startServer position
    rretries,    \* redirect-service: retries left of the current loop
    rchan,       \* redirect-service global `channel`
    req,         \* request slot -> the handler running in it
    last,        \* the response the last step sent, with its request
    fresh,       \* history: the request just answered and the one after it
    brokerUp,    \* RabbitMQ reachable
    brokerDowns, \* broker outages so far
    msgs,        \* message id -> message of q.click-events
    nextMsg,     \* next message id
    ipc,         \* analytics-service startServer position
    iretries,    \* analytics-service: retries left of the database loop
    cpc,         \* startConsumer position
    cretries,    \* startConsumer: retries left
    epoch,       \* subscriptions made so far: names the consumer channel
    handlers,    \* consume callbacks awaiting Click.create or resumption
    records,     \* the Clicks table, each row with the delivery it is from
    dbUp,        \* PostgreSQL reachable
    kills,       \* times the analytics-service process was killed
    peer,        \* a second analytics-service instance holds a subscription
    escaped,     \* an error left the consume callback (unhandled rejection)
    consumerLoops, \* startConsumer calls running, or scheduled by a timer
    subscriptions, \* open connections of this process with a consumer
    calls        \* history: channel calls of the last callback that ended

svcVars == <<upc, uretries, rpc, rretries, rchan>>
frontVars == <<store, everStored, redisUp, svcVars, req, last, fresh>>
brokerVars == <<brokerUp, brokerDowns, msgs, nextMsg>>
backVars == <<ipc, iretries, cpc, cretries, epoch, handlers, records, dbUp,
              kills, peer, escaped, consumerLoops, subscriptions, calls>>
vars == <<frontVars, brokerVars, backVars>>

Req == 1..MaxReq
MsgIds == 1..MaxMsgs

NoHdr == [ip |-> Undefined, ua |-> Undefined, referer |-> Undefined]
HdrInputs == {NoHdr,
              [ip |-> "203.0.113.7", ua |-> "curl/8", referer |-> Undefined]}

IdleReq == [op |-> "none", pc |-> "idle", code |-> NoCode, url |-> Null,
            custom |-> FALSE, attempts |-> 0, status |-> 0,
            location |-> Null, found |-> Null, pub |-> "none",
            hdr |-> NoHdr, rival |-> 0, disturbed |-> FALSE,
            absent0 |-> FALSE]

NoResp == IdleReq

NoFresh == [stage |-> "none", code |-> NoCode, url |-> Null, r |-> 0]

\* A click event as a JSON object: a key whose value is Undefined is absent.
TsIso == "2026-01-01T00:00:00.000Z"
NoEvent == [shortCode |-> Undefined, timestamp |-> Undefined,
            ipAddress |-> Undefined, userAgent |-> Undefined,
            referer |-> Undefined, longUrl |-> Undefined]
NoBody == [fmt |-> "none", obj |-> NoEvent]
\* bytes that are not JSON
GarbageBody == [fmt |-> "garbage", obj |-> NoEvent]
\* the JSON text null
JsonNullBody == [fmt |-> "null", obj |-> NoEvent]
\* a JSON object whose shortCode is not alphanumeric
BadCodeBody == [fmt |-> "object",
                obj |-> [NoEvent EXCEPT !.shortCode = CodeBang,
                                        !.timestamp = TsIso]]
\* a well-formed event of another producer
GoodBody == [fmt |-> "object",
             obj |-> [NoEvent EXCEPT !.shortCode = CodeAbc,
                                     !.timestamp = TsIso,
                                     !.ipAddress = "203.0.113.7",
                                     !.longUrl = UrlA]]
\* events that fail one validator of the Click model each
BadIpBody == [GoodBody EXCEPT !.obj.ipAddress = "not-an-ip"]
BadRefererBody == [GoodBody EXCEPT !.obj.referer = NotAUrl]
BadUrlBody == [GoodBody EXCEPT !.obj.longUrl = UrlB]
\* an event whose referer passes isUrl and overflows its VARCHAR(255) column
LongRefererBody == [GoodBody EXCEPT !.obj.referer = UrlLong]
\* an event whose three optional fields all carry the sentinel "unknown"
SentinelBody == [GoodBody EXCEPT !.obj.ipAddress = "unknown",
                                 !.obj.userAgent = "unknown",
                                 !.obj.referer = "unknown"]
ForeignBodies == {GarbageBody, JsonNullBody, BadCodeBody, BadIpBody,
                  BadRefererBody, BadUrlBody, LongRefererBody, SentinelBody,
                  GoodBody}

NoMsg == [state |-> "absent", body |-> NoBody, src |-> "none",
          received |-> FALSE, requeued |-> FALSE, by |-> 0]

Init ==
    /\ store = [k \in Keys |-> Null]
    /\ everStored = {}
    /\ redisUp = TRUE
    /\ upc = "redis_connect"
    /\ uretries = StartRetries
    /\ rpc = "redis_connect"
    /\ rretries = StartRetries
    /\ rchan = Undefined
    /\ req = [r \in Req |-> IdleReq]
    /\ last = NoResp
    /\ fresh = NoFresh
    /\ brokerUp = TRUE
    /\ brokerDowns = 0
    /\ msgs = [m \in MsgIds |-> NoMsg]
    /\ nextMsg = 1
    /\ ipc = "db_connect"
    /\ iretries = StartRetries
    /\ cpc = "off"
    /\ cretries = 0
    /\ epoch = 0
    /\ handlers = {}
    /\ records = {}
    /\ dbUp = TRUE
    /\ kills = 0
    /\ peer = FALSE
    /\ escaped = FALSE
    /\ consumerLoops = 0
    /\ subscriptions = 0
    /\ calls = <<>>


\* ------------------------------------------------------------ environment
\* The Redis connection is lost: isReady turns false, the data stays.
RedisDown ==
    /\ redisUp
    /\ redisUp' = FALSE
    /\ fresh' = NoFresh
    /\ last' = NoResp
    /\ UNCHANGED <<store, everStored, svcVars, req, brokerVars, backVars>>

RedisUp ==
    /\ ~redisUp
    /\ redisUp' = TRUE
    /\ fresh' = NoFresh
    /\ last' = NoResp
    /\ UNCHANGED <<store, everStored, svcVars, req, brokerVars, backVars>>

\* A key of the Code Store goes away under the requests in flight for it.
Disturb(rq, k) ==
    [q \in Req |-> IF rq[q].pc # "idle" /\ rq[q].custom /\ rq[q].code = k
                   THEN [rq[q] EXCEPT !.disturbed = TRUE] ELSE rq[q]]

\* The Code Store evicts a key whose TTL has run out.
Expire(k) ==
    /\ store[k] # Null
    /\ store' = [store EXCEPT ![k] = Null]
    /\ UNCHANGED everStored
    /\ req' = Disturb(req, k)
    /\ fresh' = NoFresh
    /\ last' = NoResp
    /\ UNCHANGED <<redisUp, svcVars, brokerVars, backVars>>

\* ------------------------------------------------------ url-service start
\* One turn of startServer's Redis connect loop.
UrlServiceRedisConnect ==
    /\ upc = "redis_connect"
    /\ IF redisUp
       THEN /\ upc' = "serving"
            /\ uretries' = 0
       ELSE /\ uretries' = uretries - 1
            /\ upc' = IF uretries - 1 = 0 THEN "exited" ELSE "redis_connect"
    /\ fresh' = NoFresh
    /\ last' = NoResp
    /\ UNCHANGED <<store, everStored, redisUp, rpc, rretries, rchan, req,
                   brokerVars, backVars>>

\* ------------------------------------------------- redirect-service start
ResolverRedisConnect ==
    /\ rpc = "redis_connect"
    /\ IF redisUp
       THEN /\ rpc' = "mq_connect"
            /\ rretries' = StartRetries
       ELSE /\ rretries' = rretries - 1
            /\ rpc' = IF rretries - 1 = 0 THEN "exited" ELSE "redis_connect"
    /\ fresh' = NoFresh
    /\ last' = NoResp
    /\ UNCHANGED <<store, everStored, redisUp, upc, uretries, rchan, req,
                   brokerVars, backVars>>

\* One turn of connectRabbitMQ's loop; after the last failure the service
\* goes on with channel = null.
connectRabbitMQ ==
    /\ rpc = "mq_connect"
    /\ IF brokerUp
       THEN /\ rchan' = "open"
            /\ rpc' = "serving"
            /\ rretries' = 0
       ELSE /\ rretries' = rretries - 1
            /\ IF rretries - 1 = 0
               THEN rchan' = Null /\ rpc' = "serving"
               ELSE UNCHANGED <<rchan, rpc>>
    /\ fresh' = NoFresh
    /\ last' = NoResp
    /\ UNCHANGED <<store, everStored, redisUp, upc, uretries, req, brokerVars, backVars>>

\* ------------------------------------------------------------- requests
InFlight(r) == req[r].pc # "idle"

Begin(op) == [IdleReq EXCEPT !.op = op]

Respond(rec, status) ==
    [rec EXCEPT !.pc = "done", !.status = status, !.hdr = NoHdr]

\* A custom allocate in flight for the same code as the one just answered
\* learns the answer its rival got.
TellRival(rq, rec) ==
    [q \in Req |->
       IF /\ rec.op = "alloc" /\ rec.custom /\ rec.status \in {201, 409}
          /\ rq[q].op = "alloc" /\ rq[q].custom /\ rq[q].pc # "idle"
          /\ rq[q].code = rec.code
       THEN [rq[q] EXCEPT !.rival = rec.status] ELSE rq[q]]

\* Slot r holds rec after a step: a sent response frees the slot.
Step(rq, r, rec) ==
    IF rec.pc = "done"
    THEN [TellRival(rq, rec) EXCEPT ![r] = IdleReq]
    ELSE [rq EXCEPT ![r] = rec]

\* The response a step sends, if it sends one.
Sent(rec) == IF rec.pc = "done" THEN rec ELSE NoResp

\* ----------------------------------------------- POST /api/v1/url (allocate)
\* Validation, the readiness check and the first candidate, up to the
\* first awaited redisClient.exists.
AllocStartResult(longUrl, customCode, cand) ==
    LET b == [Begin("alloc") EXCEPT !.url = longUrl] IN
    IF ~JoiUri(longUrl) \/ (customCode # NoCode /\ ~UrlServiceCodeOk(customCode))
    THEN Respond(b, 400)
    ELSE IF ~redisUp
    THEN Respond(b, 503)
    ELSE IF customCode # NoCode
    THEN [b EXCEPT !.pc = "exists", !.code = customCode, !.custom = TRUE,
                   !.absent0 = (store[customCode] = Null)]
    ELSE [b EXCEPT !.pc = "exists", !.code = cand, !.attempts = 1]

AllocStart(r, longUrl, customCode, cand) ==
    LET rec == AllocStartResult(longUrl, customCode, cand) IN
    /\ upc = "serving"
    /\ ~InFlight(r)
    /\ req' = Step(req, r, rec)
    /\ last' = Sent(rec)
    /\ fresh' = IF /\ fresh.stage = "allocated"
                   /\ customCode = fresh.code
                   /\ rec.pc = "exists"
                THEN [fresh EXCEPT !.stage = "again", !.r = r]
                ELSE NoFresh
    /\ UNCHANGED <<store, everStored, redisUp, svcVars, brokerVars, backVars>>

\* Variant of the random branch: the attempt limit is tested with >=.
AllocExistsResultOffByOne(rec, exists, cand) ==
    IF rec.custom
    THEN IF exists THEN Respond(rec, 409) ELSE [rec EXCEPT !.pc = "setex"]
    ELSE IF ~exists THEN [rec EXCEPT !.pc = "setex"]
    ELSE IF rec.attempts + 1 >= maxAttempts
         THEN Respond([rec EXCEPT !.code = cand, !.attempts = @ + 1], 500)
         ELSE [rec EXCEPT !.code = cand, !.attempts = @ + 1]

\* Variant of the custom-code branch: the reply of exists is not looked at.
AllocExistsResultNoCheck(rec, exists, cand) ==
    IF rec.custom THEN [rec EXCEPT !.pc = "setex"]
    ELSE IF ~exists THEN [rec EXCEPT !.pc = "setex"]
    ELSE IF rec.attempts + 1 > maxAttempts
         THEN Respond([rec EXCEPT !.code = cand, !.attempts = @ + 1], 500)
         ELSE [rec EXCEPT !.code = cand, !.attempts = @ + 1]

\* Variant of the custom-code branch: a taken code falls back to a random one.
AllocExistsResultFallback(rec, exists, cand) ==
    IF rec.custom
    THEN IF exists
         THEN [rec EXCEPT !.custom = FALSE, !.code = cand, !.attempts = 1]
         ELSE [rec EXCEPT !.pc = "setex"]
    ELSE IF ~exists THEN [rec EXCEPT !.pc = "setex"]
    ELSE IF rec.attempts + 1 > maxAttempts
         THEN Respond([rec EXCEPT !.code = cand, !.attempts = @ + 1], 500)
         ELSE [rec EXCEPT !.code = cand, !.attempts = @ + 1]

\* The reply of redisClient.exists and the code up to the next await.
AllocExistsResult(rec, exists, cand) ==
    IF rec.custom
    THEN IF exists THEN Respond(rec, 409) ELSE [rec EXCEPT !.pc = "setex"]
    ELSE IF ~exists THEN [rec EXCEPT !.pc = "setex"]
    ELSE IF rec.attempts + 1 > maxAttempts
         THEN Respond([rec EXCEPT !.code = cand, !.attempts = @ + 1], 500)
         ELSE [rec EXCEPT !.code = cand, !.attempts = @ + 1]

AllocExists(r, cand) ==
    LET rec == AllocExistsResult(req[r], store[req[r].code] # Null, cand) IN
    /\ req[r].op = "alloc"
    /\ req[r].pc = "exists"
    /\ redisUp
    /\ req' = Step(req, r, rec)
    /\ last' = Sent(rec)
    /\ fresh' = IF fresh.stage = "again" /\ fresh.r = r
                THEN [fresh EXCEPT !.stage = "again_done"]
                ELSE NoFresh
    /\ UNCHANGED <<store, everStored, redisUp, svcVars, brokerVars, backVars>>

\* redisClient.setEx(shortCode, 31536000, longUrl): an unconditional write.
SetExWrite(st, code, longUrl) == [st EXCEPT ![code] = longUrl]

AllocSetEx(r) ==
    LET rec == Respond(req[r], 201) IN
    /\ req[r].op = "alloc"
    /\ req[r].pc = "setex"
    /\ redisUp
    /\ store' = SetExWrite(store, req[r].code, req[r].url)
    /\ everStored' = everStored \cup {req[r].code}
    /\ req' = Step(req, r, rec)
    /\ last' = Sent(rec)
    /\ fresh' = [stage |-> "allocated", code |-> req[r].code,
                 url |-> req[r].url, r |-> 0]
    /\ UNCHANGED <<redisUp, svcVars, brokerVars, backVars>>

\* --------------------------------------- DELETE /api/v1/url/:shortCode
DeleteStartResult(code) ==
    LET b == [Begin("delete") EXCEPT !.code = code] IN
    IF ~UrlServiceCodeOk(code) THEN Respond(b, 400)
    ELSE IF ~redisUp THEN Respond(b, 503)
    ELSE [b EXCEPT !.pc = "del"]

DeleteStart(r, code) ==
    LET rec == DeleteStartResult(code) IN
    /\ upc = "serving"
    /\ ~InFlight(r)
    /\ req' = Step(req, r, rec)
    /\ last' = Sent(rec)
    /\ fresh' = NoFresh
    /\ UNCHANGED <<store, everStored, redisUp, svcVars, brokerVars, backVars>>

\* The reply of redisClient.del: the number of keys removed.
DeleteResult(rec, deleted) == Respond(rec, IF deleted = 0 THEN 404 ELSE 200)

DeleteExec(r) ==
    LET rec == DeleteResult(req[r], IF store[req[r].code] = Null THEN 0 ELSE 1) IN
    /\ req[r].op = "delete"
    /\ req[r].pc = "del"
    /\ redisUp
    /\ store' = [store EXCEPT ![req[r].code] = Null]
    /\ UNCHANGED everStored
    /\ req' = Step(Disturb(req, req[r].code), r, rec)
    /\ last' = Sent(rec)
    /\ fresh' = [stage |-> "deleted", code |-> req[r].code, url |-> Null,
                 r |-> 0]
    /\ UNCHANGED <<redisUp, svcVars, brokerVars, backVars>>

\* A Redis command whose connection is gone rejects; asyncHandler hands the
\* error to errorHandler, which answers 500.
RedisCommandFails(r) ==
    LET rec == Respond(req[r], 500) IN
    /\ req[r].pc \in {"exists", "setex", "del", "get"}
    /\ ~redisUp
    /\ req' = Step(req, r, rec)
    /\ last' = Sent(rec)
    /\ fresh' = NoFresh
    /\ UNCHANGED <<store, everStored, redisUp, svcVars, brokerVars, backVars>>

\* ------------------------------------------ GET /:shortCode (resolve)
\* Variant of the validation: the url-service's pattern is used.
ResolveStartResultUrlPattern(code, hdr) ==
    LET b == [Begin("resolve") EXCEPT !.code = code, !.hdr = hdr] IN
    IF ~UrlServiceCodeOk(code) THEN Respond(b, 400)
    ELSE IF ~redisUp THEN Respond(b, 503)
    ELSE [b EXCEPT !.pc = "get"]

ResolveStartResult(code, hdr) ==
    LET b == [Begin("resolve") EXCEPT !.code = code, !.hdr = hdr] IN
    IF ~ResolverCodeOk(code) THEN Respond(b, 400)
    ELSE IF ~redisUp THEN Respond(b, 503)
    ELSE [b EXCEPT !.pc = "get"]

ResolveStart(r, code, hdr) ==
    LET rec == ResolveStartResult(code, hdr) IN
    /\ rpc = "serving"
    /\ ~InFlight(r)
    /\ req' = Step(req, r, rec)
    /\ last' = Sent(rec)
    /\ fresh' = IF fresh.stage = "allocated" /\ fresh.code = code
                THEN [fresh EXCEPT !.stage = IF rec.pc = "done"
                                             THEN "resolved" ELSE "resolving",
                                   !.r = r]
                ELSE IF fresh.stage = "deleted" /\ fresh.code = code
                THEN [fresh EXCEPT !.stage = IF rec.pc = "done"
                                             THEN "del_resolved"
                                             ELSE "del_resolving",
                                   !.r = r]
                ELSE NoFresh
    /\ UNCHANGED <<store, everStored, redisUp, svcVars, brokerVars, backVars>>

\* The event object of the publish block.
BuildEvent(code, hdr, longUrl) ==
    [shortCode |-> code,
     timestamp |-> TsIso,
     ipAddress |-> IF hdr.ip = Undefined THEN "unknown" ELSE hdr.ip,
     userAgent |-> IF hdr.ua = Undefined THEN "unknown" ELSE hdr.ua,
     referer |-> IF hdr.referer = Undefined THEN Null ELSE hdr.referer,
     longUrl |-> longUrl]

\* Buffer.from(JSON.stringify(event)): keys whose value is undefined are left out.
Stringify(ev) == [fmt |-> "object", obj |-> ev]

\* What the publish block does with the global channel: it sends, it is
\* thrown at by a closed channel, or it skips a null channel.
PublishOutcome(chan) ==
    IF chan \in {Null, Undefined} THEN "skipped"
    ELSE IF chan = "open" THEN "sent"
    ELSE "threw"

\* Variant of the publish block: a throwing sendToQueue reaches errorHandler.
AfterPublishOrFail(rec, outcome, longUrl) ==
    IF outcome = "threw" THEN [Respond(rec, 500) EXCEPT !.pub = outcome]
    ELSE [Respond(rec, 302) EXCEPT !.location = longUrl, !.pub = outcome]

\* Variant of the publish block: without a channel the request is refused.
AfterPublishNeedsChannel(rec, outcome, longUrl) ==
    IF outcome = "skipped" THEN [Respond(rec, 503) EXCEPT !.pub = outcome]
    ELSE [Respond(rec, 302) EXCEPT !.location = longUrl, !.pub = outcome]

\* The response after the publish block: the catch only logs.
AfterPublish(rec, outcome, longUrl) ==
    [Respond(rec, 302) EXCEPT !.location = longUrl, !.pub = outcome]

\* Variant of the handler: the reply of get is not tested for null.
ResolveGetResultNoNullCheck(rec, longUrl, chan) ==
    LET got == [rec EXCEPT !.found = longUrl] IN
    IF ~UrlConstructorOk(longUrl) THEN Respond(got, 500)
    ELSE AfterPublish(got, PublishOutcome(chan), longUrl)

\* Variant of the handler: the publish block runs before the null test.
ResolveGetResultPublishFirst(rec, longUrl, chan) ==
    LET got == [rec EXCEPT !.found = longUrl] IN
    IF longUrl = Null
    THEN [Respond(got, 404) EXCEPT !.pub = PublishOutcome(chan)]
    ELSE IF ~UrlConstructorOk(longUrl) THEN Respond(got, 500)
    ELSE AfterPublish(got, PublishOutcome(chan), longUrl)

\* The reply of redisClient.get and the rest of the handler.
ResolveGetResult(rec, longUrl, chan) ==
    LET got == [rec EXCEPT !.found = longUrl] IN
    IF longUrl = Null THEN Respond(got, 404)
    ELSE IF ~UrlConstructorOk(longUrl) THEN Respond(got, 500)
    ELSE AfterPublish(got, PublishOutcome(chan), longUrl)

Enqueue(q, id, body, src) ==
    [q EXCEPT ![id] = [NoMsg EXCEPT !.state = "ready", !.body = body,
                                    !.src = src]]

ResolveGet(r) ==
    LET longUrl == store[req[r].code]
        rec == ResolveGetResult(req[r], longUrl, rchan) IN
    /\ req[r].op = "resolve"
    /\ req[r].pc = "get"
    /\ redisUp
    /\ req' = Step(req, r, rec)
    /\ last' = Sent(rec)
    /\ IF rec.pub = "sent"
       THEN /\ nextMsg <= MaxMsgs
            /\ msgs' = Enqueue(msgs, nextMsg,
                               Stringify(BuildEvent(req[r].code, req[r].hdr,
                                                    longUrl)),
                               "resolver")
            /\ nextMsg' = nextMsg + 1
       ELSE UNCHANGED <<msgs, nextMsg>>
    /\ fresh' = IF fresh.stage = "resolving" /\ fresh.r = r
                THEN [fresh EXCEPT !.stage = "resolved"]
                ELSE IF fresh.stage = "del_resolving" /\ fresh.r = r
                THEN [fresh EXCEPT !.stage = "del_resolved"]
                ELSE NoFresh
    /\ UNCHANGED <<store, everStored, redisUp, svcVars, brokerUp, brokerDowns, backVars>>

\* ------------------------------------------------------------------ broker
\* The broker restarts or the network drops: every connection closes. The
\* durable queue keeps its persistent messages and takes back the
\* unacknowledged ones. The redirect-service's close handler only logs; the
\* analytics-service's close handler arms setTimeout(startConsumer, 5000).
RequeueUnacked(q) ==
    [m \in MsgIds |-> IF q[m].state = "unacked"
                      THEN [q[m] EXCEPT !.state = "ready"] ELSE q[m]]

\* The name of the second instance's channel; the channels of the instance
\* whose startup the model follows are named 1, 2, ... by epoch.
PeerChannel == 0

\* The second instance holds message m: one of its callbacks is running.
HeldByPeer(m) == peer /\ \E h \in handlers : h.m = m /\ h.e = PeerChannel

\* One instance's connection closes: the queue takes back what that instance
\* had not acknowledged, and leaves what the other instance holds.
RequeueOwn(q) ==
    [m \in MsgIds |-> IF q[m].state = "unacked" /\ ~HeldByPeer(m)
                      THEN [q[m] EXCEPT !.state = "ready"] ELSE q[m]]

OnCloseResolver(chan) == IF chan = "open" THEN "closed" ELSE chan

OnCloseConsumer(pc) == IF pc = "subscribed" THEN "timer" ELSE pc

\* Variant of the connection's handlers: 'error' reconnects as 'close' does.
ReconnectsOnCloseBoth(subs) == 2 * subs

\* The startConsumer calls armed when `subs` subscribed connections close:
\* each one's 'close' handler sets one timer, its 'error' handler only logs.
ReconnectsOnClose(subs) == subs

BrokerDown ==
    /\ brokerUp
    /\ brokerDowns < MaxBrokerDowns
    /\ brokerUp' = FALSE
    /\ brokerDowns' = brokerDowns + 1
    /\ rchan' = OnCloseResolver(rchan)
    /\ cpc' = OnCloseConsumer(cpc)
    /\ peer' = FALSE
    /\ msgs' = RequeueUnacked(msgs)
    /\ consumerLoops' = consumerLoops + ReconnectsOnClose(subscriptions)
    /\ subscriptions' = 0
    /\ fresh' = NoFresh
    /\ last' = NoResp
    /\ UNCHANGED <<store, everStored, redisUp, upc, uretries, rpc, rretries,
                   req, nextMsg, ipc, iretries, cretries, epoch, handlers,
                   records, dbUp, kills, escaped, calls>>

BrokerUp ==
    /\ ~brokerUp
    /\ brokerUp' = TRUE
    /\ fresh' = NoFresh
    /\ last' = NoResp
    /\ UNCHANGED <<store, everStored, redisUp, svcVars, req, brokerDowns, msgs, nextMsg,
                   backVars>>

\* Another producer puts a message on the queue.
InjectMessage(body) ==
    /\ brokerUp
    /\ nextMsg <= MaxMsgs
    /\ msgs' = Enqueue(msgs, nextMsg, body, "foreign")
    /\ nextMsg' = nextMsg + 1
    /\ fresh' = NoFresh
    /\ last' = NoResp
    /\ UNCHANGED <<store, everStored, redisUp, svcVars, req, brokerUp, brokerDowns,
                   backVars>>

\* ------------------------------------------------------- analytics store
DbDown ==
    /\ dbUp
    /\ dbUp' = FALSE
    /\ fresh' = NoFresh
    /\ last' = NoResp
    /\ UNCHANGED <<store, everStored, redisUp, svcVars, req, brokerVars, ipc,
                   iretries, cpc, cretries, epoch, handlers, records, kills,
                   peer, escaped, consumerLoops, subscriptions, calls>>

DbUp ==
    /\ ~dbUp
    /\ dbUp' = TRUE
    /\ fresh' = NoFresh
    /\ last' = NoResp
    /\ UNCHANGED <<store, everStored, redisUp, svcVars, req, brokerVars, ipc,
                   iretries, cpc, cretries, epoch, handlers, records, kills,
                   peer, escaped, consumerLoops, subscriptions, calls>>

\* ---------------------------------------------- analytics-service process
\* One turn of startServer's sequelize.authenticate loop; on success the
\* models are synchronised and startConsumer() is called.
IngestorDbConnect ==
    /\ ipc = "db_connect"
    /\ IF dbUp
       THEN /\ ipc' = "running"
            /\ iretries' = 0
            /\ cpc' = "connect"
            /\ cretries' = StartRetries
            /\ consumerLoops' = consumerLoops + 1
       ELSE /\ iretries' = iretries - 1
            /\ ipc' = IF iretries - 1 = 0 THEN "exited" ELSE "db_connect"
            /\ UNCHANGED <<cpc, cretries, consumerLoops>>
    /\ fresh' = NoFresh
    /\ last' = NoResp
    /\ UNCHANGED <<store, everStored, redisUp, svcVars, req, brokerVars, epoch,
                   handlers, records, dbUp, kills, peer, escaped,
                   subscriptions, calls>>

\* The process is killed: its callbacks are gone, its connection closes and
\* the broker takes back what it had not acknowledged.
KillIngestor ==
    /\ ipc \in {"db_connect", "running"}
    /\ kills < MaxKills
    /\ kills' = kills + 1
    /\ ipc' = "down"
    /\ iretries' = 0
    /\ cpc' = "off"
    /\ cretries' = 0
    /\ handlers' = {h \in handlers : h.e = PeerChannel}
    /\ msgs' = IF cpc = "subscribed" THEN RequeueOwn(msgs) ELSE msgs
    /\ consumerLoops' = 0
    /\ subscriptions' = 0
    /\ fresh' = NoFresh
    /\ last' = NoResp
    /\ UNCHANGED <<store, everStored, redisUp, svcVars, req, brokerUp,
                   brokerDowns, nextMsg, epoch, records, dbUp, peer, escaped,
                   calls>>

RestartIngestor ==
    /\ ipc \in {"down", "exited"}
    /\ ipc' = "db_connect"
    /\ iretries' = StartRetries
    /\ fresh' = NoFresh
    /\ last' = NoResp
    /\ UNCHANGED <<store, everStored, redisUp, svcVars, req, brokerVars, cpc,
                   cretries, epoch, handlers, records, dbUp, kills, peer,
                   escaped, consumerLoops, subscriptions, calls>>

\* ------------------------------------------------------------ startConsumer
\* Variant of the loop's exit test: it gives up one failure late.
ConsumerAfterFailureOffByOne(left) == IF left < 0 THEN "gaveup" ELSE "connect"

\* After a failed attempt: give up at zero retries, else wait and go round.
ConsumerAfterFailure(left) == IF left = 0 THEN "gaveup" ELSE "connect"

\* One turn of startConsumer's loop: connect, createChannel, assertQueue and
\* consume, or count the failure.
startConsumer ==
    /\ ipc = "running"
    /\ cpc = "connect"
    /\ IF brokerUp
       THEN /\ cpc' = "subscribed"
            /\ cretries' = 0
            /\ epoch' = epoch + 1
            /\ subscriptions' = subscriptions + 1
            /\ consumerLoops' = consumerLoops - 1
       ELSE /\ cretries' = cretries - 1
            /\ cpc' = ConsumerAfterFailure(cretries - 1)
            /\ consumerLoops' =
                   IF ConsumerAfterFailure(cretries - 1) = "gaveup"
                   THEN consumerLoops - 1 ELSE consumerLoops
            /\ UNCHANGED <<epoch, subscriptions>>
    /\ fresh' = NoFresh
    /\ last' = NoResp
    /\ UNCHANGED <<store, everStored, redisUp, svcVars, req, brokerVars, ipc,
                   iretries, handlers, records, dbUp, kills, peer, escaped,
                   calls>>

\* The close handler's timer fires: startConsumer() runs again.
ReconnectTimer ==
    /\ ipc = "running"
    /\ cpc = "timer"
    /\ cpc' = "connect"
    /\ cretries' = StartRetries
    /\ fresh' = NoFresh
    /\ last' = NoResp
    /\ UNCHANGED <<store, everStored, redisUp, svcVars, req, brokerVars, ipc,
                   iretries, epoch, handlers, records, dbUp, kills, peer,
                   escaped, consumerLoops, subscriptions, calls>>

\* A second instance of the analytics-service, started against the same
\* database and broker, has run startServer and startConsumer to the
\* subscription.
PeerSubscribe ==
    /\ ~peer
    /\ dbUp
    /\ brokerUp
    /\ \A h \in handlers : h.e # PeerChannel
    /\ peer' = TRUE
    /\ fresh' = NoFresh
    /\ last' = NoResp
    /\ UNCHANGED <<store, everStored, redisUp, svcVars, req, brokerVars, ipc,
                   iretries, cpc, cretries, epoch, handlers, records, dbUp,
                   kills, escaped, consumerLoops, subscriptions, calls>>

\* ------------------------------------------------- the consume callback
IsIP(s) == s \in {"203.0.113.7"}

\* validator.isURL with its defaults: http, https or ftp, and a host with a TLD
IsUrl(s) == UrlParts(s).scheme \in {"http", "https", "ftp"} /\ UrlParts(s).tld

IsDate(s) == s = TsIso

\* JSON.parse(msg.content.toString()) and the first read of the event.
ParseOutcome(body) ==
    IF body.fmt = "garbage" THEN "SyntaxError"
    ELSE IF body.fmt = "null" THEN "TypeError"
    ELSE "ok"

\* validatedEvent
Normalize(event) ==
    [shortCode |-> event.shortCode,
     timestamp |-> event.timestamp,
     ipAddress |-> IF event.ipAddress = "unknown" THEN Null ELSE event.ipAddress,
     userAgent |-> IF event.userAgent = "unknown" THEN Null ELSE event.userAgent,
     referer |-> IF event.referer \in {Undefined, Null, ""} THEN Null
                 ELSE event.referer,
     longUrl |-> IF event.longUrl \in {Undefined, Null, ""} THEN Null
                 ELSE event.longUrl]

\* The row Click.create inserts: an attribute left undefined is stored NULL.
Row(v) == [f \in DOMAIN v |-> IF v[f] = Undefined THEN Null ELSE v[f]]

\* The validators of the Click model.
ClickValid(v) ==
    /\ v.shortCode \notin {Null, Undefined}
    /\ Len(Chars(v.shortCode)) >= CodeMin
    /\ Len(Chars(v.shortCode)) <= CodeMax
    /\ AllIn(v.shortCode, AlnumChars)
    /\ IsDate(v.timestamp)
    /\ v.ipAddress \in {Null, Undefined} \/ IsIP(v.ipAddress)
    /\ v.referer \in {Null, Undefined} \/ IsUrl(v.referer)
    /\ v.longUrl \in {Null, Undefined} \/ IsUrl(v.longUrl)

\* The INSERT fits the table: DataTypes.STRING is VARCHAR(255).
DbAccepts(v) ==
    /\ v.ipAddress \in {Null, Undefined} \/ StrLen(v.ipAddress) <= VarcharMax
    /\ v.referer \in {Null, Undefined} \/ StrLen(v.referer) <= VarcharMax

\* await Click.create(validatedEvent): the validators run first, then the
\* INSERT is sent, which the database may reject.
CreateOutcome(v, db) ==
    IF ~ClickValid(v) THEN "SequelizeValidationError"
    ELSE IF ~db THEN "SequelizeConnectionError"
    ELSE IF ~DbAccepts(v) THEN "SequelizeDatabaseError"
    ELSE "ok"

\* Variant of the catch block: it acknowledges whatever failed.
CatchDecisionAckAll(errorName) == "ack"

\* Variant of the catch block: only validation errors are discarded.
CatchDecisionRequeueSyntax(errorName) ==
    IF errorName = "SequelizeValidationError" THEN "discard" ELSE "requeue"

\* Variant of the catch block: only parse errors are discarded.
CatchDecisionRequeueValidation(errorName) ==
    IF errorName = "SyntaxError" THEN "discard" ELSE "requeue"

\* Variant of the catch block: every error is discarded.
CatchDecisionDiscardAll(errorName) == "discard"

\* The catch block: which nack an error gets.
CatchDecision(errorName) ==
    IF errorName \in {"SequelizeValidationError", "SyntaxError"}
    THEN "discard" ELSE "requeue"

\* Variant of the callback: it nacks with requeue after the insert.
AfterCreateRequeue == "requeue"

\* What the callback does once Click.create has resolved.
AfterCreate == "ack"

\* channel.ack / channel.nack as the broker applies them.
Settle(q, m, how, e) ==
    IF how = "ack" THEN [q EXCEPT ![m].state = "acked", ![m].by = e]
    ELSE IF how = "discard" THEN [q EXCEPT ![m].state = "discarded", ![m].by = e]
    ELSE [q EXCEPT ![m].state = "ready", ![m].requeued = TRUE]

\* The channel calls a callback issues when it ends with `how`: a call made
\* in the try block on a closed channel throws IllegalOperationError into the
\* catch block, which issues its nack; a nack of the catch block is the last.
IssuedCalls(how, inTry, open) ==
    IF inTry /\ ~open
    THEN <<how, CatchDecision("IllegalOperationError")>>
    ELSE <<how>>

\* The channel a callback was started on is still open.
ChannelOpen(e) ==
    IF e = PeerChannel THEN peer
    ELSE ipc = "running" /\ cpc = "subscribed" /\ e = epoch

\* Variant of the queue: every subscriber gets its own copy of a message.
DeliverableFanout(q, m) == q[m].state \in {"ready", "unacked"}

\* q.click-events is one shared queue: the broker hands a message to one
\* consumer, and to no other until it comes back to the queue.
Deliverable(q, m) == q[m].state = "ready"

\* The broker pushes a ready message (no prefetch limit); the callback runs
\* to its first await, or to the nack of a parse failure.
DeliverOn(m, e) ==
    LET got == [msgs EXCEPT ![m].state = "unacked", ![m].received = TRUE]
        parsed == ParseOutcome(msgs[m].body) IN
    /\ ChannelOpen(e)
    /\ brokerUp
    /\ Deliverable(msgs, m)
    /\ IF parsed = "ok"
       THEN /\ msgs' = got
            /\ handlers' = handlers \cup {[m |-> m, e |-> e, pc |-> "create"]}
            /\ UNCHANGED calls
       ELSE /\ msgs' = Settle(got, m, CatchDecision(parsed), e)
            /\ calls' = IssuedCalls(CatchDecision(parsed), FALSE, TRUE)
            /\ UNCHANGED handlers
    /\ fresh' = NoFresh
    /\ last' = NoResp
    /\ UNCHANGED <<store, everStored, redisUp, svcVars, req, brokerUp,
                   brokerDowns, nextMsg, ipc, iretries, cpc, cretries, epoch,
                   records, dbUp, kills, peer, escaped, consumerLoops,
                   subscriptions>>

\* A delivery to the instance whose startup the model follows.
Deliver(m) == cpc = "subscribed" /\ DeliverOn(m, epoch)

\* A delivery to the second instance.
PeerDeliver(m) == DeliverOn(m, PeerChannel)

\* Click.create settles: the row is written, or the catch block nacks. A
\* nack on a closed channel throws out of the catch block.
CreateDone(h) ==
    LET v == Normalize(msgs[h.m].body.obj)
        out == CreateOutcome(v, dbUp) IN
    /\ h \in handlers
    /\ h.pc = "create"
    /\ IF out = "ok"
       THEN /\ records' = records \cup {[m |-> h.m, e |-> h.e, data |-> Row(v)]}
            /\ handlers' = (handlers \ {h}) \cup {[h EXCEPT !.pc = "inserted"]}
            /\ UNCHANGED <<msgs, escaped, calls>>
       ELSE /\ handlers' = handlers \ {h}
            /\ UNCHANGED records
            /\ calls' = IssuedCalls(CatchDecision(out), FALSE, ChannelOpen(h.e))
            /\ IF ChannelOpen(h.e)
               THEN /\ msgs' = Settle(msgs, h.m, CatchDecision(out), h.e)
                    /\ UNCHANGED escaped
               ELSE /\ escaped' = TRUE
                    /\ UNCHANGED msgs
    /\ fresh' = NoFresh
    /\ last' = NoResp
    /\ UNCHANGED <<store, everStored, redisUp, svcVars, req, brokerUp,
                   brokerDowns, nextMsg, ipc, iretries, cpc, cretries, epoch,
                   dbUp, kills, peer, consumerLoops, subscriptions>>

\* The callback resumes after the insert: channel.ack(msg). On a closed
\* channel ack throws, and so does the nack of the catch block.
HandlerAck(h) ==
    /\ h \in handlers
    /\ h.pc = "inserted"
    /\ handlers' = handlers \ {h}
    /\ calls' = IssuedCalls(AfterCreate, TRUE, ChannelOpen(h.e))
    /\ IF ChannelOpen(h.e)
       THEN /\ msgs' = Settle(msgs, h.m, AfterCreate, h.e)
            /\ UNCHANGED escaped
       ELSE /\ escaped' = TRUE
            /\ UNCHANGED msgs
    /\ fresh' = NoFresh
    /\ last' = NoResp
    /\ UNCHANGED <<store, everStored, redisUp, svcVars, req, brokerUp,
                   brokerDowns, nextMsg, ipc, iretries, cpc, cretries, epoch,
                   records, dbUp, kills, peer, consumerLoops, subscriptions>>

\* ---------------------------------------------------------- specifications
\* Allocators racing on the Code Store: any allocate and delete requests in
\* MaxReq slots, TTL expiry and Redis outages.
NextAlloc ==
    \/ RedisDown
    \/ RedisUp
    \/ UrlServiceRedisConnect
    \/ \E k \in Keys : Expire(k)
    \/ \E r \in Req, u \in UrlInputs, c \in CustomInputs :
          AllocStart(r, u, c, NanoA)
    \/ \E r \in Req : AllocExists(r, NanoA)
    \/ \E r \in Req : AllocSetEx(r)
    \/ \E r \in Req, c \in CodeInputs : DeleteStart(r, c)
    \/ \E r \in Req : DeleteExec(r)
    \/ \E r \in Req : RedisCommandFails(r)

SpecAlloc == Init /\ [][NextAlloc]_vars

\* One client at a time against both services, with broker outages.
NextResolve ==
    \/ BrokerDown
    \/ BrokerUp
    \/ UrlServiceRedisConnect
    \/ ResolverRedisConnect
    \/ connectRabbitMQ
    \/ \E u \in UrlInputs, c \in CustomInputs \cup {NoCode},
          cand \in NanoPool : AllocStart(1, u, c, cand)
    \/ \E cand \in NanoPool : AllocExists(1, cand)
    \/ AllocSetEx(1)
    \/ \E c \in CodeInputs : DeleteStart(1, c)
    \/ DeleteExec(1)
    \/ \E c \in CodeInputs : ResolveStart(1, c, NoHdr)
    \/ ResolveGet(1)

SpecResolve == Init /\ [][NextResolve]_vars

\* The three services starting while any of their dependencies may be
\* unreachable, and one client at a time once they serve.
NextBoot ==
    \/ RedisDown
    \/ RedisUp
    \/ BrokerDown
    \/ BrokerUp
    \/ DbDown
    \/ DbUp
    \/ UrlServiceRedisConnect
    \/ ResolverRedisConnect
    \/ connectRabbitMQ
    \/ IngestorDbConnect
    \/ startConsumer
    \/ \E u \in SchemeInputs : AllocStart(1, u, CodeAbc, NanoA)
    \/ AllocExists(1, NanoA)
    \/ AllocSetEx(1)
    \/ \E c \in {CodeAbc, CodeBang} : ResolveStart(1, c, NoHdr)
    \/ ResolveGet(1)
    \/ RedisCommandFails(1)

SpecBoot == Init /\ [][NextBoot]_vars

\* The Ingestor against the queue, with broker and database outages, kills
\* of the process and messages of any shape put on the queue.
NextIngest ==
    \/ BrokerDown
    \/ BrokerUp
    \/ DbDown
    \/ DbUp
    \/ IngestorDbConnect
    \/ KillIngestor
    \/ RestartIngestor
    \/ startConsumer
    \/ ReconnectTimer
    \/ \E body \in ForeignBodies : InjectMessage(body)
    \/ \E m \in MsgIds : Deliver(m)
    \/ \E h \in handlers : CreateDone(h)
    \/ \E h \in handlers : HandlerAck(h)

SpecIngest == Init /\ [][NextIngest]_vars

\* The whole pipeline for one code, with broker outages: allocate "abc",
\* resolve it, publish, consume. Timers and awaited I/O always come back, so
\* every step of the services is weakly fair, and so is the broker's return;
\* client requests and outages are not.
NextOutage ==
    \/ BrokerDown
    \/ BrokerUp
    \/ UrlServiceRedisConnect
    \/ ResolverRedisConnect
    \/ connectRabbitMQ
    \/ AllocStart(1, UrlA, CodeAbc, NanoA)
    \/ AllocExists(1, NanoA)
    \/ AllocSetEx(1)
    \/ \E h \in HdrInputs : ResolveStart(1, CodeAbc, h)
    \/ ResolveGet(1)
    \/ IngestorDbConnect
    \/ startConsumer
    \/ ReconnectTimer
    \/ \E m \in MsgIds : Deliver(m)
    \/ \E h \in handlers : CreateDone(h)
    \/ \E h \in handlers : HandlerAck(h)

FairOutage ==
    /\ Init
    /\ [][NextOutage]_vars
    /\ WF_vars(BrokerUp)
    /\ WF_vars(UrlServiceRedisConnect)
    /\ WF_vars(ResolverRedisConnect)
    /\ WF_vars(connectRabbitMQ)
    /\ WF_vars(AllocExists(1, NanoA))
    /\ WF_vars(AllocSetEx(1))
    /\ WF_vars(ResolveGet(1))
    /\ WF_vars(IngestorDbConnect)
    /\ WF_vars(startConsumer)
    /\ WF_vars(ReconnectTimer)
    /\ \A m \in MsgIds : WF_vars(Deliver(m))
    /\ \A m \in MsgIds : WF_vars(\E h \in handlers : h.m = m /\ CreateDone(h))
    /\ \A m \in MsgIds : WF_vars(\E h \in handlers : h.m = m /\ HandlerAck(h))

\* The Ingestor in steady state: broker and database stay up, the process
\* may be killed and is restarted by its supervisor.
NextSteady ==
    \/ IngestorDbConnect
    \/ KillIngestor
    \/ RestartIngestor
    \/ startConsumer
    \/ \E body \in ForeignBodies : InjectMessage(body)
    \/ \E m \in MsgIds : Deliver(m)
    \/ \E h \in handlers : CreateDone(h)
    \/ \E h \in handlers : HandlerAck(h)

FairSteady ==
    /\ Init
    /\ [][NextSteady]_vars
    /\ WF_vars(IngestorDbConnect)
    /\ WF_vars(RestartIngestor)
    /\ WF_vars(startConsumer)
    /\ \A m \in MsgIds : WF_vars(Deliver(m))
    /\ \A m \in MsgIds : WF_vars(\E h \in handlers : h.m = m /\ CreateDone(h))
    /\ \A m \in MsgIds : WF_vars(\E h \in handlers : h.m = m /\ HandlerAck(h))

\* The Ingestor with the broker up and the database going away and coming
\* back; the scheduling is that of FairSteady. Nothing makes the database
\* return, so its recovery is a premise of what is claimed here.
NextDb ==
    \/ DbDown
    \/ DbUp
    \/ IngestorDbConnect
    \/ KillIngestor
    \/ RestartIngestor
    \/ startConsumer
    \/ \E body \in ForeignBodies : InjectMessage(body)
    \/ \E m \in MsgIds : Deliver(m)
    \/ \E h \in handlers : CreateDone(h)
    \/ \E h \in handlers : HandlerAck(h)

FairDb ==
    /\ Init
    /\ [][NextDb]_vars
    /\ WF_vars(IngestorDbConnect)
    /\ WF_vars(RestartIngestor)
    /\ WF_vars(startConsumer)
    /\ \A m \in MsgIds : WF_vars(Deliver(m))
    /\ \A m \in MsgIds : WF_vars(\E h \in handlers : h.m = m /\ CreateDone(h))
    /\ \A m \in MsgIds : WF_vars(\E h \in handlers : h.m = m /\ HandlerAck(h))

\* Two instances of the analytics-service consume q.click-events together,
\* with broker and database up and no process killed; the events are the
\* resolver's own and a well-formed one of another producer.
PeerBodies == {GoodBody, Stringify(BuildEvent(CodeAbc, NoHdr, UrlA))}

NextPeers ==
    \/ IngestorDbConnect
    \/ startConsumer
    \/ PeerSubscribe
    \/ \E body \in PeerBodies : InjectMessage(body)
    \/ \E m \in MsgIds : Deliver(m)
    \/ \E m \in MsgIds : PeerDeliver(m)
    \/ \E h \in handlers : CreateDone(h)
    \/ \E h \in handlers : HandlerAck(h)

FairPeers ==
    /\ Init
    /\ [][NextPeers]_vars
    /\ WF_vars(IngestorDbConnect)
    /\ WF_vars(startConsumer)
    /\ \A m \in MsgIds : WF_vars(Deliver(m) \/ PeerDeliver(m))
    /\ \A m \in MsgIds : WF_vars(\E h \in handlers : h.m = m /\ CreateDone(h))
    /\ \A m \in MsgIds : WF_vars(\E h \in handlers : h.m = m /\ HandlerAck(h))

\* ------------------------------------------------------------ properties
\* The ClickRecords persisted for message m.
RecordsOf(m) == {rec \in records : rec.m = m}

\* Messages the queue holds: ready or delivered and not yet settled.
QueueDepth(q) == Cardinality({m \in MsgIds : q[m].state \in {"ready", "unacked"}})

\* Message m carries an event the Click model and its table accept.
ValidMsg(m) ==
    /\ ParseOutcome(msgs[m].body) = "ok"
    /\ ClickValid(Normalize(msgs[m].body.obj))
    /\ DbAccepts(Normalize(msgs[m].body.obj))

\* C1: a message is acknowledged only after the insert of that delivery's
\* ClickRecord succeeded: no reachable state has an acknowledged message
\* without a record written by the delivery that acknowledged it.
C1_AckOnlyAfterInsert ==
    \A m \in MsgIds :
        msgs[m].state = "acked" =>
            \E rec \in records : rec.m = m /\ rec.e = msgs[m].by

C1_Witness ==
    \E m \in MsgIds : msgs[m].state = "acked" /\ RecordsOf(m) # {}

\* C2: of two concurrent allocates of the same custom code, absent when both
\* started and not deleted or expired under them, exactly one answers 201
\* and the other answers 409.
C2_ExactlyOneSucceeds ==
    (/\ last.op = "alloc"
     /\ last.custom
     /\ last.absent0
     /\ ~last.disturbed
     /\ last.rival # 0
     /\ last.status \in {201, 409})
    => {last.status, last.rival} = {201, 409}

\* C3: while a code stays in the Code Store its destination never changes.
C3_DestinationStable ==
    [][\A k \in Keys :
          (store[k] # Null /\ store'[k] # Null) => store'[k] = store[k]]_vars

\* C4: a resolve issued right after a successful allocate, for the code that
\* allocate returned, answers 302 with the allocated destination.
C4_AllocateThenResolve ==
    fresh.stage = "resolved" =>
        /\ last.op = "resolve"
        /\ last.status = 302
        /\ last.location = fresh.url

\* C5: every ClickEvent the Resolver handed to an open channel is eventually
\* received by the Ingestor, under fair scheduling and across broker outages.
C5_AtLeastOnce ==
    \A m \in MsgIds : (msgs[m].src = "resolver") ~> msgs[m].received

\* C6: a valid message that the Ingestor had received and not acknowledged
\* when the process was killed is redelivered after the restart and ends
\* acknowledged with at least one ClickRecord; with that single kill the
\* count ends one above what the killed delivery had written: 1 when the
\* kill came before the insert, 2 when it came after.
C6_KilledBeforeAck ==
    \A m \in MsgIds : \A n \in {0, 1} :
        (/\ ipc = "down"
         /\ kills = 1
         /\ msgs[m].state = "ready"
         /\ msgs[m].received
         /\ ValidMsg(m)
         /\ Cardinality(RecordsOf(m)) = n)
        ~> (/\ msgs[m].state = "acked"
            /\ Cardinality(RecordsOf(m)) >= 1
            /\ (kills = 1 => Cardinality(RecordsOf(m)) = n + 1))

C6_Witness ==
    \E m \in MsgIds :
        /\ kills = 1
        /\ msgs[m].state = "acked"
        /\ Cardinality(RecordsOf(m)) = 2

\* C7: a resolve that found its code answers 302 to the stored destination,
\* whether the publish was sent, threw or was skipped.
C7_RedirectWhateverPublish ==
    (last.op = "resolve" /\ last.found # Null) =>
        /\ last.status = 302
        /\ last.location = last.found
        /\ last.pub \in {"sent", "threw", "skipped"}

C7_Witness ==
    /\ last.op = "resolve"
    /\ last.found # Null
    /\ last.status = 302
    /\ last.pub = "threw"

\* C8: a malformed message (one that does not parse to an event object) is
\* rejected without requeue and eventually discarded, and every valid
\* message enqueued behind one is eventually acknowledged with its
\* ClickRecord persisted.
C8_PoisonContained ==
    /\ [](\A m \in MsgIds :
            ParseOutcome(msgs[m].body) # "ok" => ~msgs[m].requeued)
    /\ \A m \in MsgIds :
          (msgs[m].state # "absent" /\ ParseOutcome(msgs[m].body) # "ok")
          ~> (msgs[m].state = "discarded")
    /\ \A p \in MsgIds : \A m \in MsgIds :
          (/\ p < m
           /\ msgs[m].state # "absent"
           /\ ParseOutcome(msgs[p].body) # "ok"
           /\ ValidMsg(m))
          ~> (msgs[m].state = "acked" /\ RecordsOf(m) # {})

\* C9: a message whose body is not JSON is rejected without requeue on its
\* delivery: it leaves the queue, whose depth drops by one, it is never
\* requeued and no ClickRecord is ever persisted for it.
C9_NonJsonDiscarded ==
    /\ [](\A m \in MsgIds :
            msgs[m].body.fmt = "garbage" =>
                /\ msgs[m].state \in {"ready", "discarded"}
                /\ ~msgs[m].requeued
                /\ RecordsOf(m) = {})
    /\ [][\A m \in MsgIds :
            (/\ msgs[m].body.fmt = "garbage"
             /\ msgs[m].state = "ready"
             /\ msgs'[m].state # "ready")
            => (/\ msgs'[m].state = "discarded"
                /\ QueueDepth(msgs') = QueueDepth(msgs) - 1
                /\ records' = records)]_vars

C9_Witness ==
    \E m \in MsgIds :
        msgs[m].body.fmt = "garbage" /\ msgs[m].state = "discarded"

\* C10: when Click.create of a valid event fails because the database is
\* unreachable, the callback persists nothing and nacks with requeue: the
\* message is ready again and the queue depth is unchanged. On a channel
\* that has closed meanwhile the nack throws and the queue, which took the
\* message back at the close, is left as it is.
C10_TransientRequeued ==
    [][\A h \in handlers :
          (/\ h.pc = "create"
           /\ h \notin handlers'
           /\ kills' = kills
           /\ ~dbUp
           /\ ClickValid(Normalize(msgs[h.m].body.obj)))
          => (/\ records' = records
              /\ IF ChannelOpen(h.e)
                 THEN /\ msgs'[h.m].state = "ready"
                      /\ msgs'[h.m].requeued
                      /\ QueueDepth(msgs') = QueueDepth(msgs)
                 ELSE msgs' = msgs)]_vars

C10_Witness ==
    \E m \in MsgIds :
        /\ ValidMsg(m)
        /\ msgs[m].state = "ready"
        /\ msgs[m].requeued
        /\ RecordsOf(m) = {}

\* The step is handler h leaving `await Click.create`.
CreateSettles(h) ==
    /\ h \in handlers
    /\ h.pc = "create"
    /\ h \notin handlers'
    /\ kills' = kills

\* C11: when the database rejects the row of an event that passed the
\* validators (a permanent error of the data itself), the message is
\* rejected without requeue: it is discarded and nothing is persisted.
C11_PermanentDiscarded ==
    [][\A h \in handlers :
          (/\ CreateSettles(h)
           /\ dbUp
           /\ ChannelOpen(h.e)
           /\ ClickValid(Normalize(msgs[h.m].body.obj))
           /\ ~DbAccepts(Normalize(msgs[h.m].body.obj)))
          => (msgs'[h.m].state = "discarded" /\ records' = records)]_vars

\* C12: an event that parsed and fails a validator of the Click model is
\* rejected without requeue and never persisted: the message is never
\* requeued or acknowledged, has no record, and the step that settles
\* Click.create discards it and lowers the queue depth by one.
C12_InvalidDiscarded ==
    /\ [](\A m \in MsgIds :
            (/\ msgs[m].state # "absent"
             /\ ParseOutcome(msgs[m].body) = "ok"
             /\ ~ClickValid(Normalize(msgs[m].body.obj)))
            => (/\ ~msgs[m].requeued
                /\ msgs[m].state # "acked"
                /\ RecordsOf(m) = {}))
    /\ [][\A h \in handlers :
            (CreateSettles(h) /\ ~ClickValid(Normalize(msgs[h.m].body.obj)))
            => (/\ records' = records
                /\ IF ChannelOpen(h.e)
                   THEN /\ msgs'[h.m].state = "discarded"
                        /\ QueueDepth(msgs') = QueueDepth(msgs) - 1
                   ELSE msgs' = msgs)]_vars

C12_Witness ==
    \E m \in MsgIds :
        /\ ParseOutcome(msgs[m].body) = "ok"
        /\ ~ClickValid(Normalize(msgs[m].body.obj))
        /\ msgs[m].state = "discarded"
        /\ msgs[m].body \in {BadIpBody, BadRefererBody, BadUrlBody}

\* C13: after the consumer lost its connection in steady state it never
\* stops retrying, it eventually holds a subscription again, and every
\* message waiting in the queue is then consumed.
C13_ConsumerReconnects ==
    /\ [](epoch >= 1 => cpc # "gaveup")
    /\ (epoch >= 1 /\ cpc = "timer") ~> (cpc = "subscribed")
    /\ \A m \in MsgIds :
          (epoch >= 1 /\ cpc = "timer" /\ msgs[m].state = "ready")
          ~> (msgs[m].state = "acked")

\* C14: after the Resolver lost its broker connection in steady state a
\* connect loop is running, the channel is eventually open again, and a
\* resolve answered 302 on an open channel publishes its ClickEvent.
C14_PublisherReconnects ==
    /\ [](rchan = "closed" => rpc = "mq_connect")
    /\ (rchan = "closed") ~> (rchan = "open")
    /\ [](last.op = "resolve" /\ last.status = 302 /\ rchan = "open"
            => last.pub = "sent")

\* C15: in a sequential run an allocate of a custom code that was absent
\* answers 201 and writes the mapping, and an allocate of the same code
\* issued right after it answers 409 and leaves the first mapping, whatever
\* the two destination URLs.
C15_SecondAllocateConflicts ==
    /\ (last.op = "alloc" /\ last.custom /\ last.absent0)
         => (last.status = 201 /\ store[last.code] = last.url)
    /\ fresh.stage = "again_done"
         => (/\ last.op = "alloc"
             /\ last.code = fresh.code
             /\ last.status = 409
             /\ store[fresh.code] = fresh.url)

C15_Witness ==
    /\ fresh.stage = "again_done"
    /\ last.status = 409
    /\ last.url # fresh.url

\* C16: an allocate without a custom code checks at most maxAttempts
\* candidates. Each reply of exists either ends the search with the
\* candidate just found absent, or moves to the next candidate, or, when it
\* was the maxAttempts-th existing candidate in a row, answers 500 and
\* writes nothing. A 201 stores the candidate that was found absent.
C16_BoundedCandidates ==
    /\ [](\A r \in Req : req[r].pc = "exists" => req[r].attempts <= maxAttempts)
    /\ []((last.op = "alloc" /\ ~last.custom /\ last.status = 500)
            => last.attempts = maxAttempts + 1)
    /\ []((last.op = "alloc" /\ ~last.custom /\ last.status = 201)
            => (last.attempts <= maxAttempts /\ store[last.code] = last.url))
    /\ [][\A r \in Req :
            (/\ req[r].op = "alloc"
             /\ ~req[r].custom
             /\ req[r].pc = "exists"
             /\ req'[r] # req[r])
            => IF store[req[r].code] = Null
               THEN /\ req'[r].pc = "setex"
                    /\ req'[r].code = req[r].code
                    /\ store' = store
               ELSE IF req[r].attempts < maxAttempts
               THEN /\ req'[r].pc = "exists"
                    /\ req'[r].attempts = req[r].attempts + 1
                    /\ store' = store
               ELSE /\ last'.status = 500
                    /\ req'[r] = IdleReq
                    /\ store' = store]_vars

C16_Witness ==
    /\ last.op = "alloc"
    /\ ~last.custom
    /\ last.status = 500
    /\ last.attempts = maxAttempts + 1

\* C17: a code returned by an allocate without a custom code has 7
\* characters, all of them letters or digits, and the resolve issued right
\* after it answers 302 with the allocated destination.
C17_RandomCodeFormat ==
    /\ (last.op = "alloc" /\ ~last.custom /\ last.status = 201)
         => (Len(Chars(last.code)) = 7 /\ AllIn(last.code, AlnumChars))
    /\ (fresh.stage = "resolved" /\ fresh.code \in NanoPool)
         => (last.status = 302 /\ last.location = fresh.url)

\* C18: a resolve issued right after a delete of the same code, whether
\* the delete found the code (200) or not (404), answers 404.
C18_DeleteThenResolve ==
    fresh.stage = "del_resolved" =>
        (last.op = "resolve" /\ last.code = fresh.code /\ last.status = 404)

\* C19: a resolve of a well-formed code that no allocate has ever written
\* answers 404, and the step that answers 404 puts nothing on the queue.
C19_NeverAllocatedNotFound ==
    /\ []((/\ last.op = "resolve"
           /\ ResolverCodeOk(last.code)
           /\ last.code \notin everStored)
          => (last.status = 404 /\ last.pub = "none"))
    /\ [][(last'.op = "resolve" /\ last'.status = 404)
            => (msgs' = msgs /\ nextMsg' = nextMsg)]_vars

C19_Witness ==
    /\ last.op = "resolve"
    /\ last.code = CodeAbc
    /\ last.code \notin everStored
    /\ everStored # {}
    /\ last.status = 404

\* C20: a resolve of a code outside the 3 to 20 character alphanumeric
\* format answers 400 at once: no lookup is ever pending for such a code,
\* the response carries nothing read from the Code Store, and the step
\* puts nothing on the queue.
C20_InvalidFormatRejected ==
    /\ []((last.op = "resolve" /\ ~ResolverCodeOk(last.code))
          => (last.status = 400 /\ last.found = Null /\ last.pub = "none"))
    /\ [](\A r \in Req :
            (req[r].op = "resolve" /\ req[r].pc = "get")
            => ResolverCodeOk(req[r].code))
    /\ [][(last'.op = "resolve" /\ last'.status = 400)
            => (/\ ~ResolverCodeOk(last'.code)
                /\ \A r \in Req : req[r].pc # "get"
                /\ msgs' = msgs
                /\ nextMsg' = nextMsg)]_vars

C20_Witness ==
    /\ last.op = "resolve"
    /\ last.code \in {CodeShort, CodeBang, NanoB}
    /\ last.status = 400
    /\ store[NanoB] # Null

\* A connect loop that is running has between 1 and StartRetries attempts
\* left, so it makes at most StartRetries attempts.
LoopsBounded ==
    /\ upc = "redis_connect" => uretries \in 1..StartRetries
    /\ rpc \in {"redis_connect", "mq_connect"} => rretries \in 1..StartRetries
    /\ ipc = "db_connect" => iretries \in 1..StartRetries
    /\ cpc = "connect" => cretries \in 1..StartRetries

\* A service goes past the connect loop of its Code Store or analytics
\* store only on a successful attempt, and exits when the last one failed.
StoreLoopsFatal ==
    /\ (upc = "redis_connect" /\ upc' # upc)
         => IF redisUp THEN upc' = "serving"
            ELSE uretries = 1 /\ upc' = "exited"
    /\ (rpc = "redis_connect" /\ rpc' # rpc)
         => IF redisUp THEN rpc' = "mq_connect"
            ELSE rretries = 1 /\ rpc' = "exited"
    /\ (ipc = "db_connect" /\ ipc' # ipc)
         => IF dbUp THEN ipc' = "running"
            ELSE iretries = 1 /\ ipc' = "exited"
    /\ (upc = "redis_connect" /\ ~redisUp /\ uretries' # uretries)
         => uretries' = uretries - 1
    /\ (rpc = "redis_connect" /\ ~redisUp /\ rretries' # rretries)
         => rretries' = rretries - 1
    /\ (ipc = "db_connect" /\ ~dbUp /\ iretries' # iretries)
         => iretries' = iretries - 1
    /\ upc = "exited" => upc' = "exited"
    /\ rpc = "exited" => rpc' = "exited"

\* C21: every connect loop makes at most StartRetries attempts; when the
\* last attempt to a dependency fails the service exits; a service that
\* serves has connected to each of its dependencies: the Resolver holds a
\* channel and the Ingestor's consumer has not given up.
C21_StartupFatal ==
    /\ []LoopsBounded
    /\ [][StoreLoopsFatal]_vars
    /\ [](rpc = "serving" => rchan \notin {Null, Undefined})
    /\ [](ipc = "running" => cpc # "gaveup")

\* C21 as amended: the loops of the Code Store and of the analytics store
\* are fatal; the loop of the Event Channel is not. After its last failure
\* the Resolver serves with channel = null and the Ingestor, which serves
\* as soon as its database is connected, keeps running with no consumer.
C21_StartupFatalStoresOnly ==
    /\ []LoopsBounded
    /\ [][StoreLoopsFatal]_vars
    /\ [][(rpc = "mq_connect" /\ rpc' # rpc)
            => (/\ rpc' = "serving"
                /\ IF brokerUp THEN rchan' = "open"
                   ELSE rretries = 1 /\ rchan' = Null)]_vars
    /\ [][(cpc = "connect" /\ cpc' # cpc)
            => (/\ ipc' = "running"
                /\ IF brokerUp THEN cpc' = "subscribed"
                   ELSE cretries = 1 /\ cpc' = "gaveup")]_vars
    /\ [][(rpc = "mq_connect" /\ ~brokerUp /\ rretries' # rretries)
            => rretries' = rretries - 1]_vars
    /\ [][(cpc = "connect" /\ ~brokerUp /\ cretries' # cretries)
            => cretries' = cretries - 1]_vars
    /\ [](rpc = "serving" => rchan \in {"open", "closed", Null})

C21_Witness ==
    /\ upc = "exited"
    /\ rpc = "serving"
    /\ rchan = Null
    /\ ipc = "running"
    /\ cpc = "gaveup"

\* C22: when the broker is unreachable at the last startup attempt of
\* connectRabbitMQ, the Resolver goes on to serve with channel = null. The
\* channel then stays null, and every lookup that finds its code, with Redis
\* reachable, answers 302 to the stored destination, skips the publish and
\* puts nothing on the queue, also after the broker has returned.
C22_DegradedStart ==
    /\ [][(rpc = "mq_connect" /\ ~brokerUp /\ rretries = 1
           /\ rretries' # rretries)
            => (rpc' = "serving" /\ rchan' = Null)]_vars
    /\ [][rchan = Null => (rchan' = Null /\ nextMsg' = nextMsg)]_vars
    /\ [][(/\ rchan = Null
           /\ req[1].op = "resolve"
           /\ req[1].pc = "get"
           /\ req'[1] # req[1]
           /\ redisUp
           /\ store[req[1].code] # Null)
            => (/\ last'.op = "resolve"
                /\ last'.status = 302
                /\ last'.location = store[req[1].code]
                /\ last'.pub = "skipped"
                /\ msgs' = msgs)]_vars

C22_Witness ==
    /\ rpc = "serving"
    /\ rchan = Null
    /\ brokerUp
    /\ last.op = "resolve"
    /\ last.status = 302
    /\ last.location = UrlA
    /\ last.pub = "skipped"
    /\ nextMsg = 1

\* C23: for client IP, user agent and referer alike, the event the
\* callback hands to Click.create, and every ClickRecord persisted, carries
\* null where the message carried "unknown" or nothing, and the message's
\* own value otherwise.
C23_SentinelsToNull ==
    \A m \in MsgIds : \A f \in {"ipAddress", "userAgent", "referer"} :
        LET ev == msgs[m].body.obj
            claimed == IF ev[f] \in {"unknown", Undefined} THEN Null ELSE ev[f]
        IN  (msgs[m].received /\ ParseOutcome(msgs[m].body) = "ok")
            => (/\ Row(Normalize(ev))[f] = claimed
                /\ \A rec \in RecordsOf(m) : rec.data[f] = claimed)

\* C24: every destination in the Code Store has the http or https scheme,
\* and an allocate of a destination with any other scheme, or none, answers
\* 400 and leaves the Code Store as it was.
C24_HttpSchemesOnly ==
    /\ [](\A k \in Keys :
            store[k] # Null => UrlParts(store[k]).scheme \in {"http", "https"})
    /\ []((last.op = "alloc"
           /\ UrlParts(last.url).scheme \notin {"http", "https"})
          => last.status = 400)
    /\ [][(last'.op = "alloc" /\ last'.status = 400) => store' = store]_vars

\* C25: with the broker and the database up throughout, every message the
\* Ingestor has received is eventually acknowledged or discarded; it is then
\* settled for good, so that no message is requeued for ever.
C25_NoQueueBlocking ==
    \A m \in MsgIds :
        msgs[m].received ~> (msgs[m].state \in {"acked", "discarded"})

\* C26: a message whose body does not parse to an event object (bytes that
\* are not JSON, or the JSON text null) is discarded by the delivery that
\* first hands it to the callback: it is never requeued, never acknowledged
\* and never persisted.
C26_MalformedRejected ==
    /\ [](\A m \in MsgIds :
            (msgs[m].state # "absent" /\ ParseOutcome(msgs[m].body) # "ok")
            => (/\ msgs[m].state \in {"ready", "discarded"}
                /\ msgs[m].received = (msgs[m].state = "discarded")
                /\ ~msgs[m].requeued
                /\ RecordsOf(m) = {}))
    /\ [][\A m \in MsgIds :
            (/\ ParseOutcome(msgs[m].body) # "ok"
             /\ ~msgs[m].received
             /\ msgs'[m].received)
            => msgs'[m].state = "discarded"]_vars

\* C27: if the database is from some moment on available for good, a valid
\* message that was requeued after a failed insert is eventually
\* acknowledged with a ClickRecord persisted.
C27_TransientRecovers ==
    (<>[]dbUp) =>
        \A m \in MsgIds :
            (ValidMsg(m) /\ msgs[m].requeued)
            ~> (msgs[m].state = "acked" /\ RecordsOf(m) # {})

C27_Witness ==
    \E m \in MsgIds :
        /\ ValidMsg(m)
        /\ msgs[m].requeued
        /\ dbUp
        /\ msgs[m].state = "acked"
        /\ RecordsOf(m) # {}

\* C28: on the consumer's channel at most one message is delivered and not
\* yet settled, and at most one callback of that channel is waiting for its
\* Click.create.
C28_OneAtATime ==
    /\ Cardinality({m \in MsgIds : msgs[m].state = "unacked"}) <= 1
    /\ Cardinality({h \in handlers : ChannelOpen(h.e) /\ h.pc = "create"}) <= 1

\* C29: with two instances consuming the same queue and nothing killed,
\* disconnected or rejected, a message is held by one callback of one
\* instance at a time, no valid event ever has more than one ClickRecord,
\* an acknowledged one has exactly one, and every valid event on the queue
\* is eventually acknowledged with exactly one ClickRecord.
C29_ExactlyOnceAcrossInstances ==
    /\ [](\A m \in MsgIds :
            /\ Cardinality(RecordsOf(m)) <= 1
            /\ msgs[m].state = "unacked"
                 => Cardinality({h \in handlers : h.m = m}) = 1
            /\ msgs[m].state = "acked" => Cardinality(RecordsOf(m)) = 1)
    /\ \A m \in MsgIds :
          (msgs[m].state # "absent" /\ ValidMsg(m))
          ~> (msgs[m].state = "acked" /\ Cardinality(RecordsOf(m)) = 1)

C29_Witness ==
    /\ peer
    /\ cpc = "subscribed"
    /\ \E m \in MsgIds, n \in MsgIds :
          /\ msgs[m].state = "acked"
          /\ msgs[m].by = PeerChannel
          /\ msgs[n].state = "acked"
          /\ msgs[n].by = epoch
          /\ Cardinality(records) = 2

\* C30: a message that was enqueued is waiting, or delivered with exactly
\* one callback running on an open channel, or acknowledged with a
\* ClickRecord persisted, or discarded after an error of the permanent
\* class (a parse error or a validation error). It never disappears or
\* changes, and once acknowledged or discarded it stays so.
C30_MessageAccounting ==
    /\ [](\A m \in MsgIds :
            /\ msgs[m].state \in {"absent", "ready", "unacked", "acked",
                                  "discarded"}
            /\ msgs[m].state = "absent" <=> m >= nextMsg
            /\ msgs[m].state = "unacked"
                 => Cardinality({h \in handlers :
                                   h.m = m /\ ChannelOpen(h.e)}) = 1
            /\ msgs[m].state = "acked" => RecordsOf(m) # {}
            /\ msgs[m].state = "discarded"
                 => (/\ RecordsOf(m) = {}
                     /\ \/ ParseOutcome(msgs[m].body) = "SyntaxError"
                        \/ /\ ParseOutcome(msgs[m].body) = "ok"
                           /\ ~ClickValid(Normalize(msgs[m].body.obj))))
    /\ [][\A m \in MsgIds :
            msgs[m].state # "absent"
            => (/\ msgs'[m].state # "absent"
                /\ msgs'[m].body = msgs[m].body
                /\ msgs[m].state \in {"acked", "discarded"}
                     => msgs'[m].state = msgs[m].state)]_vars

C30_Witness ==
    \E m \in MsgIds, n \in MsgIds :
        /\ msgs[m].state = "acked"
        /\ RecordsOf(m) # {}
        /\ msgs[n].state = "discarded"
        /\ ParseOutcome(msgs[n].body) = "ok"
        /\ kills = 1
        /\ brokerDowns = 1

C32_NothingEscapes == ~escaped

\* C33: when the existence check of a custom-code allocate finds the code
\* taken, that step answers 409 and ends the request without trying any
\* other code, and it writes nothing: every key of the Code Store keeps
\* its value. A 409 is only ever sent for a custom code that is taken.
C33_ConflictWritesNothing ==
    /\ [][(/\ req[1].op = "alloc"
           /\ req[1].custom
           /\ req[1].pc = "exists"
           /\ req'[1] # req[1]
           /\ store[req[1].code] # Null)
            => (/\ last'.op = "alloc"
                /\ last'.status = 409
                /\ last'.code = req[1].code
                /\ last'.attempts = 0
                /\ req'[1] = IdleReq
                /\ store' = store
                /\ everStored' = everStored)]_vars
    /\ [](last.status = 409
            => (last.op = "alloc" /\ last.custom /\ store[last.code] # Null))

C33_Witness ==
    /\ last.op = "alloc"
    /\ last.status = 409
    /\ last.url = UrlB
    /\ store[last.code] = UrlA
    /\ Cardinality(everStored) = 1

\* C34: every key of the Code Store passes the format validation of the
\* Resolver, and so does every code an allocate has answered 201 with.
C34_StoredCodesResolvable ==
    /\ \A k \in Keys : store[k] # Null => ResolverCodeOk(k)
    /\ (last.op = "alloc" /\ last.status = 201) => ResolverCodeOk(last.code)

\* C35: every event the Resolver has put on the queue passes the validators
\* of the Click model and fits its table, so that the Ingestor persists it
\* and never discards it.
C35_PublishedEventsValid ==
    \A m \in MsgIds :
        msgs[m].src = "resolver"
        => (/\ ParseOutcome(msgs[m].body) = "ok"
            /\ ClickValid(Normalize(msgs[m].body.obj))
            /\ DbAccepts(Normalize(msgs[m].body.obj))
            /\ msgs[m].state # "discarded")

\* C36: whatever broker drops, failed attempts, reconnects, kills and
\* restarts have happened, the process holds at most one subscription and
\* at most one startConsumer loop running or scheduled, and never a loop
\* beside a subscription; the counts agree with the loop's position.
C36_OneConsumerLoop ==
    /\ subscriptions \in {0, 1}
    /\ consumerLoops \in {0, 1}
    /\ subscriptions + consumerLoops <= 1
    /\ subscriptions = 1 <=> (cpc = "subscribed")
    /\ consumerLoops = 1 <=> (cpc \in {"connect", "timer"})

\* after a drop, failed attempts and a reconnect: the second subscription
C36_Witness ==
    /\ brokerDowns = 1
    /\ epoch = 2
    /\ cpc = "subscribed"
    /\ subscriptions = 1
    /\ consumerLoops = 0

\* C37: a callback that has ended issued exactly one of ack, reject without
\* requeue and reject with requeue, and no reject after an ack.
C37_SettledExactlyOnce ==
    calls # <<>>
    => (/\ Len(calls) = 1
        /\ calls[1] \in {"ack", "discard", "requeue"}
        /\ \A i \in 1..Len(calls) :
               calls[i] = "ack" => \A j \in (i+1)..Len(calls) : calls[j] = "ack")

====
